---- MODULE Spec2Model ----
(***************************************************************************)
(* The open-addressing hash map of steyou/discrete_map.h.                  *)
(*                                                                         *)
(* The repository holds several drafts of one engine.  Four of them are    *)
(* modelled, selected by the variable draft:                               *)
(*   "partial_map"  : src/include/partial_map.h                            *)
(*   "discrete_map" : src/include/discrete_map.h                           *)
(*   "part_006"     : the discrete_map of src/unnamed/part_006             *)
(*   "part_003"     : the discrete_map of src/unnamed/part_003, over       *)
(*                    src/include/HashPolicy.h and GrowthPolicy.h          *)
(* The slot table _index_probe is a function from 0..capacity-1 to a dense *)
(* index or nullopt; _keys and _values are the two dense vectors (TLA+     *)
(* sequences, so dense index d is element d+1).                            *)
(*                                                                         *)
(* Reads past the end of a vector (a stale dense index left in a slot) are *)
(* undefined behaviour: the value read is drawn from JunkKeys/JunkValues   *)
(* by the action, one value per out-of-range index.                        *)
(*                                                                         *)
(* _current is the position of an iterator of src/include/linear_prober.h  *)
(* over the slot table; only the draft "linear_prober" moves it.           *)
(***************************************************************************)
EXTENDS Integers, Sequences, FiniteSets, TLC

VARIABLES draft, _index_probe, _keys, _values, last, pre, live, steps,
          _current

vars == <<draft, _index_probe, _keys, _values, last, pre, live, steps,
          _current>>

(* ------------------------------ bounds -------------------------------- *)
\* number of public calls made on one map
MaxSteps == 4
\* largest capacity hint n given to discrete_map(size_t n)
MaxHint == 5

\* number of public calls made on one map in the fill runs
MaxFill == 9
\* number of public calls made on one map in the access runs
MaxAccess == 4
\* number of public calls made on one map in the probe runs
MaxProbe == 4
\* number of public calls made on one map in the full-table runs
MaxFull == 11
\* number of moves of one linear_prober iterator
MaxWalk == 3

Keys == {1, 2, 9, 17}
Values == {1, 2}
Drafts == {"partial_map", "discrete_map", "part_006"}
RehashArgs == {4, 9, 16}
\* keys that part_003 sends to the start of a table of 8 (1, 2, 3) and to
\* its end (9, 11)
ProbeKeys == {1, 2, 3, 9, 11}
FillValue == CHOOSE v \in Values : TRUE

(* --------------------------- program constants ------------------------ *)
\* std::nullopt in a slot
nullopt == -1
\* Key{} and T{}: what vector(n) value-initialises its elements to
DefaultKey == 0
DefaultValue == 0
\* BitwiseMapPolicy::threshold() is 0.8f, kept as the fraction 4/5
ThresholdNum == 4
ThresholdDen == 5

JunkKeys == Keys \cup {DefaultKey}
JunkValues == Values \cup {DefaultValue}

(* ------------------------------ policy -------------------------------- *)
RECURSIVE BitAnd(_, _)
BitAnd(a, b) ==
    IF a = 0 \/ b = 0 THEN 0
    ELSE (a % 2) * (b % 2) + 2 * BitAnd(a \div 2, b \div 2)

\* BitwiseMapPolicy::get_index
get_index(raw_hash_val, capacity) == BitAnd(raw_hash_val, capacity - 1)

\* BitwiseMapPolicy::next_capacity(capacity): capacity << 1
next_capacity(capacity) == capacity * 2

\* BitwiseMapPolicy::min_capacity
min_capacity == 8

\* std::hash of an integral key is the key itself
hash_function(k) == k

_key2index(k, capacity) == get_index(hash_function(k), capacity)

(* --------------------------- vectors and slots ------------------------ *)
size(ip) == Cardinality(DOMAIN ip)

EmptyProbe(n) == [i \in 0..(n - 1) |-> nullopt]

\* the dense indices held by slots that lie past the end of the key vector
StaleIdx(ip, ks) ==
    {ip[s] : s \in {t \in DOMAIN ip : ip[t] # nullopt /\ ip[t] >= Len(ks)}}

\* one arbitrary value for every out-of-range vector read of a call
JunkReads(ip, ks) == [StaleIdx(ip, ks) -> JunkKeys]

\* _keys[i]
key_at(ks, i, junk) == IF i < Len(ks) THEN ks[i + 1] ELSE junk[i]

\* _values[i]
value_at(vs, i, junkv) == IF i < Len(vs) THEN vs[i + 1] ELSE junkv

\* _values[i] = value; a store past the end does not touch an element
value_store(vs, i, value) ==
    IF i < Len(vs) THEN [vs EXCEPT ![i + 1] = value] ELSE vs

\* vector::erase(begin() + d).  Past the end it is undefined: the vector is
\* left alone or loses its last element (oob_pop).
vector_erase(v, d, oob_pop) ==
    IF d < Len(v) THEN SubSeq(v, 1, d) \o SubSeq(v, d + 2, Len(v))
    ELSE IF oob_pop /\ Len(v) > 0 THEN SubSeq(v, 1, Len(v) - 1)
    ELSE v

empties(ip) == {i \in DOMAIN ip : ip[i] = nullopt}

\* the slots whose dense key compares equal to key
matches(ip, ks, key, junk) ==
    {i \in DOMAIN ip : ip[i] # nullopt /\ key_at(ks, ip[i], junk) = key}

\* the order of the two loops: start..n-1, then 0..start-1
CircularOrder(start_index, n) ==
    [p \in 1..n |-> IF start_index + (p - 1) < n
                    THEN start_index + (p - 1)
                    ELSE (p - 1) - (n - start_index)]

\* The first slot, in circular order from start_index, at which the callback
\* returns true (hits is the set of slots where it would); -1 when the walk
\* ends without one.
_circular_traversal(start_index, n, hits) ==
    LET order == CircularOrder(start_index, n)
        ps == {p \in 1..n : order[p] \in hits}
    IN IF ps = {} THEN -1
       ELSE order[CHOOSE p \in ps : \A q \in ps : p <= q]

Map(ip, ks, vs, r) == [index_probe |-> ip, keys |-> ks, values |-> vs, ret |-> r]

\* a load factor or threshold as the fraction <<numerator, denominator>>
FracGeq(a, b) == a[1] * b[2] >= b[1] * a[2]
FracGt(a, b) == a[1] * b[2] > b[1] * a[2]

\* BitwiseMapPolicy::threshold
threshold == <<ThresholdNum, ThresholdDen>>

(* ------------------- src/include/partial_map.h ------------------------ *)
\* partial_map::_load_factor: size_t division, then converted to float
_load_factor(ip, ks) == <<Len(ks) \div size(ip), 1>>

\* partial_map::_resize, from old slot s on: every occupied old slot is put
\* into the first free slot from its key's bucket under the new size
RECURSIVE resize_from(_, _, _, _, _)
resize_from(s, ip, ks, junk, the_bigger_probe) ==
    IF s >= size(ip) THEN the_bigger_probe
    ELSE IF ip[s] = nullopt THEN resize_from(s + 1, ip, ks, junk, the_bigger_probe)
    ELSE LET new_size == size(the_bigger_probe)
             new_hash_index == _key2index(key_at(ks, ip[s], junk), new_size)
             i == _circular_traversal(new_hash_index, new_size,
                                      empties(the_bigger_probe))
         IN resize_from(s + 1, ip, ks, junk,
                        IF i = -1 THEN the_bigger_probe
                        ELSE [the_bigger_probe EXCEPT ![i] = ip[s]])

_resize(ip, ks, junk) ==
    resize_from(0, ip, ks, junk, EmptyProbe(next_capacity(size(ip))))

\* partial_map::insert
pm_insert(ip, ks, vs, key, value, junk) ==
    LET i == _circular_traversal(_key2index(key, size(ip)), size(ip),
                                 empties(ip) \cup matches(ip, ks, key, junk))
    IN IF i = -1 THEN Map(ip, ks, vs, FALSE)
       ELSE IF ip[i] # nullopt
       THEN Map(ip, ks, value_store(vs, ip[i], value), TRUE)
       ELSE LET ip1 == [ip EXCEPT ![i] = Len(ks)]
                ks1 == Append(ks, key)
                vs1 == Append(vs, value)
            IN Map(IF FracGt(_load_factor(ip1, ks1), threshold)
                   THEN _resize(ip1, ks1, junk) ELSE ip1,
                   ks1, vs1, TRUE)

\* partial_map::find: the walk stops at the first empty slot
pm_find(ip, ks, vs, key, junk, junkv) ==
    LET i == _circular_traversal(_key2index(key, size(ip)), size(ip),
                                 empties(ip) \cup matches(ip, ks, key, junk))
    IN IF i = -1 \/ ip[i] = nullopt THEN [found |-> FALSE, value |-> DefaultValue]
       ELSE [found |-> TRUE, value |-> value_at(vs, ip[i], junkv)]

\* partial_map::erase: the walk stops at the first empty slot
pm_erase(ip, ks, vs, key, junk, oob_pop) ==
    LET i == _circular_traversal(_key2index(key, size(ip)), size(ip),
                                 empties(ip) \cup matches(ip, ks, key, junk))
    IN IF i = -1 \/ ip[i] = nullopt THEN Map(ip, ks, vs, FALSE)
       ELSE Map([ip EXCEPT ![i] = nullopt],
                vector_erase(ks, ip[i], oob_pop),
                vector_erase(vs, ip[i], oob_pop), TRUE)

(* ------------------- src/unnamed/part_006 ----------------------------- *)
\* discrete_map::load_factor: static_cast<float>(size_t / size_t)
p6_load_factor(ip, ks) == <<Len(ks) \div size(ip), 1>>

\* discrete_map::_grow_next: the same re-probing loop as partial_map::_resize
p6_grow_next(ip, ks, junk) ==
    resize_from(0, ip, ks, junk, EmptyProbe(next_capacity(size(ip))))

\* discrete_map::insert
p6_insert(ip, ks, vs, key, value, junk) ==
    LET i == _circular_traversal(_key2index(key, size(ip)), size(ip),
                                 empties(ip) \cup matches(ip, ks, key, junk))
    IN IF i = -1 THEN Map(ip, ks, vs, FALSE)
       ELSE IF ip[i] = nullopt
       THEN LET ip1 == [ip EXCEPT ![i] = Len(ks)]
                ks1 == Append(ks, key)
                vs1 == Append(vs, value)
            IN Map(IF FracGeq(p6_load_factor(ip1, ks1), threshold)
                   THEN p6_grow_next(ip1, ks1, junk) ELSE ip1,
                   ks1, vs1, TRUE)
       ELSE Map(ip, ks, value_store(vs, ip[i], value), TRUE)

\* discrete_map::erase: only a matching slot ends the walk
p6_erase(ip, ks, vs, key, junk, oob_pop) ==
    LET i == _circular_traversal(_key2index(key, size(ip)), size(ip),
                                 matches(ip, ks, key, junk))
    IN IF i = -1 THEN Map(ip, ks, vs, FALSE)
       ELSE Map([ip EXCEPT ![i] = nullopt],
                vector_erase(ks, ip[i], oob_pop),
                vector_erase(vs, ip[i], oob_pop), TRUE)

\* discrete_map::find(const Key&, T&): only a matching slot ends the walk
p6_find(ip, ks, vs, key, junk, junkv) ==
    LET i == _circular_traversal(_key2index(key, size(ip)), size(ip),
                                 matches(ip, ks, key, junk))
    IN IF i = -1 THEN [found |-> FALSE, value |-> DefaultValue]
       ELSE [found |-> TRUE, value |-> value_at(vs, ip[i], junkv)]

(* ------------------- src/include/discrete_map.h ----------------------- *)
\* discrete_map::load_factor: float(size) / float(capacity)
load_factor(ip, ks) == <<Len(ks), size(ip)>>

\* discrete_map::rehash, from old slot s on: every occupied old slot is
\* stored at its key's bucket under n, whatever that bucket holds
RECURSIVE rehash_from(_, _, _, _, _)
rehash_from(s, ip, ks, junk, the_bigger_probe) ==
    IF s >= size(ip) THEN the_bigger_probe
    ELSE IF ip[s] = nullopt THEN rehash_from(s + 1, ip, ks, junk, the_bigger_probe)
    ELSE LET index_for_bigger_probe ==
                 get_index(hash_function(key_at(ks, ip[s], junk)),
                           size(the_bigger_probe))
         IN rehash_from(s + 1, ip, ks, junk,
                [the_bigger_probe EXCEPT ![index_for_bigger_probe] = ip[s]])

\* rehash without the early return of lines 540-542
rehash_unguarded(ip, ks, n, junk) ==
    rehash_from(0, ip, ks, junk, EmptyProbe(n))

rehash(ip, ks, n, junk) ==
    IF n <= size(ip) THEN ip
    ELSE rehash_from(0, ip, ks, junk, EmptyProbe(n))

\* discrete_map::_grow_next
_grow_next(ip, ks, junk) == rehash(ip, ks, next_capacity(size(ip)), junk)

\* an insert whose growth rebuilds the dense vectors as well, the new entry
\* first
dm_insert_rebuilding(ip, ks, vs, key, value, junk, landed) ==
    LET i == _circular_traversal(_key2index(key, size(ip)), size(ip),
                                 empties(ip) \cup matches(ip, ks, key, junk))
    IN IF i = -1 THEN Map(ip, ks, vs, FALSE)
       ELSE IF ip[i] = nullopt
       THEN LET grow == FracGeq(load_factor(ip, ks), threshold)
                ip1 == IF grow THEN _grow_next(ip, ks, junk) ELSE ip
            IN Map(IF grow /\ ~landed THEN ip1
                   ELSE [ip1 EXCEPT ![i] = Len(ks)],
                   IF grow THEN <<key>> \o ks ELSE Append(ks, key),
                   IF grow THEN <<value>> \o vs ELSE Append(vs, value), TRUE)
       ELSE Map(ip, ks, value_store(vs, ip[i], value), TRUE)

\* discrete_map::insert.  current_kv_index refers to an element of the table
\* that rehash replaces, so after a growth the store of the new dense index
\* goes through a dangling reference: it misses the table now in use, or
\* (landed) hits slot i of it.
dm_insert(ip, ks, vs, key, value, junk, landed) ==
    LET i == _circular_traversal(_key2index(key, size(ip)), size(ip),
                                 empties(ip) \cup matches(ip, ks, key, junk))
    IN IF i = -1 THEN Map(ip, ks, vs, FALSE)
       ELSE IF ip[i] = nullopt
       THEN LET grow == FracGeq(load_factor(ip, ks), threshold)
                ip1 == IF grow THEN _grow_next(ip, ks, junk) ELSE ip
            IN Map(IF grow /\ ~landed THEN ip1
                   ELSE [ip1 EXCEPT ![i] = Len(ks)],
                   Append(ks, key), Append(vs, value), TRUE)
       ELSE Map(ip, ks, value_store(vs, ip[i], value), TRUE)

\* discrete_map::erase: the callback of lines 371-382 under the driver
\* _circular_traversal(k2i, erase_pair_if_index_match)
dm_erase(ip, ks, vs, key, junk, oob_pop) ==
    LET i == _circular_traversal(_key2index(key, size(ip)), size(ip),
                                 matches(ip, ks, key, junk))
    IN IF i = -1 THEN Map(ip, ks, vs, FALSE)
       ELSE Map([ip EXCEPT ![i] = nullopt],
                vector_erase(ks, ip[i], oob_pop),
                vector_erase(vs, ip[i], oob_pop), TRUE)

\* discrete_map::contains: only a matching slot ends the walk
dm_contains(ip, ks, vs, key, junk, junkv) ==
    LET i == _circular_traversal(_key2index(key, size(ip)), size(ip),
                                 matches(ip, ks, key, junk))
    IN IF i = -1 THEN [found |-> FALSE, value |-> DefaultValue]
       ELSE [found |-> TRUE, value |-> value_at(vs, ip[i], junkv)]

\* discrete_map(): min_capacity empty slots.  discrete_map(size_t n):
\* _keys(n), _values(n) and max(min_capacity, 2n) empty slots.
dm_construct(n) ==
    Map(EmptyProbe(IF min_capacity >= 2 * n THEN min_capacity ELSE 2 * n),
        [d \in 1..n |-> DefaultKey], [d \in 1..n |-> DefaultValue], TRUE)

\* vector::pop_back.  On an empty vector it is undefined: the vector is left
\* empty, or its size wraps and it reads as non-empty junk, kept here as the
\* one-element vector <<junkb>>.
pop_back(v, wrap, junkb) ==
    IF Len(v) > 0 THEN SubSeq(v, 1, Len(v) - 1)
    ELSE IF wrap THEN <<junkb>> ELSE v

\* _keys.back(); on an empty vector the read is undefined
back(ks, junkb) == IF Len(ks) > 0 THEN ks[Len(ks)] ELSE junkb

\* std::swap(v[d], v.back()).  Past the end the store misses the vector and
\* only the last element, popped next, would change.
swap_back(v, d) ==
    IF d < Len(v) THEN [v EXCEPT ![d + 1] = v[Len(v)], ![Len(v)] = v[d + 1]]
    ELSE v

\* discrete_map::erase_unordered.  The slot of the back key is assigned
\* _keys[current_kv_index.value()], a key; current_kv_index is then read
\* again for the swap; _keys is popped twice and _values not at all.
erase_unordered(ip, ks, vs, key, junk, wrap, junkb) ==
    LET i == _circular_traversal(_key2index(key, size(ip)), size(ip),
                                 matches(ip, ks, key, junk))
    IN IF i = -1 THEN Map(ip, ks, vs, FALSE)
       ELSE LET back_key == back(ks, junkb)
                j == _circular_traversal(_key2index(back_key, size(ip)),
                                         size(ip),
                                         matches(ip, ks, back_key, junk))
                ip1 == IF j = -1 THEN ip
                       ELSE [ip EXCEPT ![j] = key_at(ks, ip[i], junk)]
                ks1 == pop_back(swap_back(ks, ip1[i]), wrap, junkb)
            IN Map([ip1 EXCEPT ![i] = nullopt],
                   pop_back(ks1, wrap, junkb), vs, TRUE)

\* discrete_map::find(const Key&): the position of the iterator returned,
\* begin() + i for the matching slot i, end() when no slot matches
dm_find(ip, ks, key, junk) ==
    LET i == _circular_traversal(_key2index(key, size(ip)), size(ip),
                                 matches(ip, ks, key, junk))
    IN IF i = -1 THEN Len(ks) ELSE i

\* discrete_map::at: the value under the iterator of find unless that
\* iterator equals end(), else the error code
at(ip, ks, vs, key, junk, junkv) ==
    LET it == dm_find(ip, ks, key, junk)
    IN IF it # Len(ks) THEN [ok |-> TRUE, value |-> value_at(vs, it, junkv)]
       ELSE [ok |-> FALSE, value |-> DefaultValue]

(* ---------- src/include/HashPolicy.h under src/unnamed/part_003 -------- *)
\* linear_prober::threshold() is 0.5f, kept as the fraction 1/2
ProberThresholdNum == 1
ProberThresholdDen == 2
prober_threshold == <<ProberThresholdNum, ProberThresholdDen>>

\* size_t arithmetic is kept to its low bits; every capacity stays below
SizeModulus == 1024

\* BitwiseGrowthPolicy::get_index_impl(capacity, raw_hash_val)
get_index_impl(capacity, raw_hash_val) ==
    BitAnd(raw_hash_val, (capacity - 1) % SizeModulus)

\* GrowthPolicy::get_index(capacity, raw_hash_val), of which _indexer is a
\* copy
_indexer(capacity, raw_hash_val) == get_index_impl(capacity, raw_hash_val)

\* part_003 _key2index: _growth_pol->get_index(hash, _hash_pol->size()),
\* the hash in the place of capacity and the size in the place of
\* raw_hash_val
p3_key2index(k, capacity) == _indexer(hash_function(k), capacity)

\* HashPolicy::load_factor(num_elements)
hp_load_factor(ip, ks) == <<Len(ks), size(ip)>>

\* the loop of HashPolicy::rehash, from old slot s on: every occupied slot
\* is stored at _indexer(hash, next), whatever that element holds; a store
\* at next itself, past the end, does not touch an element
RECURSIVE hp_rehash_from(_, _, _, _, _)
hp_rehash_from(s, ip, ks, junk, the_bigger_probe) ==
    IF s >= size(ip) THEN the_bigger_probe
    ELSE IF ip[s] = nullopt
    THEN hp_rehash_from(s + 1, ip, ks, junk, the_bigger_probe)
    ELSE LET index_for_bigger_probe ==
                 _indexer(hash_function(key_at(ks, ip[s], junk)),
                          size(the_bigger_probe))
         IN hp_rehash_from(s + 1, ip, ks, junk,
                IF index_for_bigger_probe < size(the_bigger_probe)
                THEN [the_bigger_probe EXCEPT
                          ![index_for_bigger_probe] = ip[s]]
                ELSE the_bigger_probe)

\* HashPolicy::rehash
hp_rehash(ip, ks, next, junk) ==
    IF next <= size(ip) THEN ip
    ELSE hp_rehash_from(0, ip, ks, junk, EmptyProbe(next))

\* the loop of HashPolicy::probe: from start to the end of the table, no
\* wrap; the first slot that is empty or whose key matches, -1 at the end
probe_loop(ip, ks, start, key, junk) ==
    LET stops == {s \in DOMAIN ip :
                     s >= start /\ s \in empties(ip) \cup matches(ip, ks, key, junk)}
    IN IF stops = {} THEN -1
       ELSE CHOOSE s \in stops : \A t \in stops : s <= t

\* an emergency rehash to twice the table, 2 * _indices.size()
emergency_capacity_doubled(ip, ks) == 2 * size(ip)

\* the argument of the emergency rehash, 2 * _keys.size()
emergency_capacity(ip, ks) == 2 * Len(ks)

\* HashPolicy::probe.  When the loop reaches the end of the table it calls
\* rehash(2 * _keys.size()) and then probe(start, callback) again.  If the
\* rehash did nothing the same walk repeats without end (slot = -1: the call
\* never returns).  If it replaced the table, start is an iterator into the
\* table given up: the second walk runs from the same offset of the new
\* table (retry) or does not return.
probe(ip, ks, start, key, junk, retry) ==
    LET s == probe_loop(ip, ks, start, key, junk)
        next == emergency_capacity(ip, ks)
        ip1 == hp_rehash(ip, ks, next, junk)
    IN IF s # -1 THEN [indices |-> ip, slot |-> s]
       ELSE IF next <= size(ip) \/ ~retry THEN [indices |-> ip1, slot |-> -1]
       ELSE [indices |-> ip1, slot |-> probe_loop(ip1, ks, start, key, junk)]

\* part_003 discrete_map::find: the slot probe returns holds the key, or is
\* empty (the key is reported absent)
p3_find(ip, ks, key, junk, retry) ==
    LET r == probe(ip, ks, p3_key2index(key, size(ip)), key, junk, retry)
    IN [indices |-> r.indices, returns |-> r.slot # -1,
        found |-> r.slot # -1 /\ r.indices[r.slot] # nullopt]

\* part_003 discrete_map::insert: the empty-slot branch of insert_empty is
\* applied to the slot probe returns; a stored key is left as it is.  As in
\* discrete_map.h the dense index is stored through a reference that a
\* growth leaves dangling (landed).  ret is FALSE when probe does not
\* return.
p3_insert(ip, ks, vs, key, value, junk, retry, landed) ==
    LET r == probe(ip, ks, p3_key2index(key, size(ip)), key, junk, retry)
        ip0 == r.indices
        i == r.slot
    IN IF i = -1 THEN Map(ip0, ks, vs, FALSE)
       ELSE IF ip0[i] # nullopt THEN Map(ip0, ks, vs, TRUE)
       ELSE LET grow == FracGeq(hp_load_factor(ip0, ks), prober_threshold)
                ip1 == IF grow
                       THEN hp_rehash(ip0, ks, next_capacity(size(ip0)), junk)
                       ELSE ip0
            IN Map(IF grow /\ ~landed THEN ip1
                   ELSE [ip1 EXCEPT ![i] = Len(ks)],
                   Append(ks, key), Append(vs, value), TRUE)

\* part_003 discrete_map() and discrete_map(size_type n, ...): the same
\* members as in discrete_map.h
p3_construct(n) == dm_construct(n)

(* ------------------- src/include/linear_prober.h ---------------------- *)
\* iterator_impl::operator++ on a collection of n elements
lp_increment(current, n) ==
    IF current + 1 >= n THEN 0 ELSE current + 1

\* iterator_impl::operator+(n) on a collection of sz elements: the position
\* of the iterator returned
lp_advance(current, n, sz) ==
    LET i == current + n
    IN IF i > sz THEN i - sz ELSE i

(* ------------------------------ dispatch ------------------------------ *)
insert(ip, ks, vs, key, value, junk, landed) ==
    CASE draft = "partial_map" -> pm_insert(ip, ks, vs, key, value, junk)
      [] draft = "part_006" -> p6_insert(ip, ks, vs, key, value, junk)
      [] OTHER -> dm_insert(ip, ks, vs, key, value, junk, landed)

erase(ip, ks, vs, key, junk, oob_pop) ==
    CASE draft = "partial_map" -> pm_erase(ip, ks, vs, key, junk, oob_pop)
      [] draft = "part_006" -> p6_erase(ip, ks, vs, key, junk, oob_pop)
      [] OTHER -> dm_erase(ip, ks, vs, key, junk, oob_pop)

find(ip, ks, vs, key, junk, junkv) ==
    CASE draft = "partial_map" -> pm_find(ip, ks, vs, key, junk, junkv)
      [] draft = "part_006" -> p6_find(ip, ks, vs, key, junk, junkv)
      [] OTHER -> dm_contains(ip, ks, vs, key, junk, junkv)

\* the slot at which the lookup of discrete_map.h and part_006 ends: the
\* first one whose key matches, -1 when none does
find_slot(ip, ks, key, junk) ==
    _circular_traversal(_key2index(key, size(ip)), size(ip),
                        matches(ip, ks, key, junk))

\* operator[] up to its return: find(k, result), and when that fails
\* insert(k, T{}).  ret tells whether the first find succeeded.
subscript(ip, ks, vs, key, junk, landed) ==
    IF find_slot(ip, ks, key, junk) # -1 THEN Map(ip, ks, vs, TRUE)
    ELSE LET m == insert(ip, ks, vs, key, DefaultValue, junk, landed)
         IN Map(m.index_probe, m.keys, m.values, FALSE)

\* return *result: the dense index of the value result points at after the
\* last find(k, result) of operator[]; -1 when that find failed and result
\* was never assigned
subscript_result(m, key, junk) ==
    LET j == find_slot(m.index_probe, m.keys, key, junk)
    IN IF j = -1 THEN -1 ELSE m.index_probe[j]

Snapshot == [index_probe |-> _index_probe, keys |-> _keys, values |-> _values]

(* ------------------------------ the machine --------------------------- *)
Init ==
    /\ draft \in Drafts
    /\ \E n \in 0..MaxHint :
        /\ (draft # "discrete_map") => n = 0
        /\ LET m == dm_construct(n)
           IN /\ _index_probe = m.index_probe
              /\ _keys = m.keys
              /\ _values = m.values
              /\ pre = [index_probe |-> m.index_probe, keys |-> m.keys,
                        values |-> m.values]
        /\ last = [op |-> "construct", key |-> DefaultKey, value |-> n,
                   ret |-> TRUE]
    /\ live = {}
    /\ steps = 0
    /\ _current = 0

Apply(m) ==
    /\ _index_probe' = m.index_probe
    /\ _keys' = m.keys
    /\ _values' = m.values
    /\ pre' = Snapshot
    /\ steps' = steps + 1
    /\ UNCHANGED <<draft, _current>>

Insert(key, value) ==
    /\ \E junk \in JunkReads(_index_probe, _keys), landed \in BOOLEAN :
        LET m == insert(_index_probe, _keys, _values, key, value, junk, landed)
        IN /\ Apply(m)
           /\ last' = [op |-> "insert", key |-> key, value |-> value,
                       ret |-> m.ret]
    /\ live' = live \cup {key}

Erase(key) ==
    /\ \E junk \in JunkReads(_index_probe, _keys), oob_pop \in BOOLEAN :
        LET m == erase(_index_probe, _keys, _values, key, junk, oob_pop)
        IN /\ Apply(m)
           /\ last' = [op |-> "erase", key |-> key, value |-> DefaultValue,
                       ret |-> m.ret]
    /\ live' = live \ {key}

Find(key) ==
    /\ \E junk \in JunkReads(_index_probe, _keys), junkv \in JunkValues :
        LET r == find(_index_probe, _keys, _values, key, junk, junkv)
        IN /\ Apply(Snapshot)
           /\ last' = [op |-> "find", key |-> key, value |-> r.value,
                       ret |-> r.found]
    /\ UNCHANGED live

Rehash(n) ==
    /\ draft = "discrete_map"
    /\ \E junk \in JunkReads(_index_probe, _keys) :
        /\ Apply(Map(rehash(_index_probe, _keys, n, junk), _keys, _values, TRUE))
        /\ last' = [op |-> "rehash", key |-> DefaultKey, value |-> n,
                    ret |-> TRUE]
    /\ UNCHANGED live

CallInsert(key, value) == steps < MaxSteps /\ Insert(key, value)
CallErase(key) == steps < MaxSteps /\ Erase(key)
CallFind(key) == steps < MaxSteps /\ Find(key)
CallRehash(n) == steps < MaxSteps /\ Rehash(n)

Next ==
    \/ \E key \in Keys, value \in Values : CallInsert(key, value)
    \/ \E key \in Keys : CallErase(key)
    \/ \E key \in Keys : CallFind(key)
    \/ \E n \in RehashArgs : CallRehash(n)

Spec == Init /\ [][Next]_vars

(* A default-constructed map filled with the keys 1, 2, 3, ... in turn,    *)
(* with lookups in between: the runs that reach an insert-triggered growth *)
(* from the minimum capacity.                                              *)
Subscript(key) ==
    /\ draft # "partial_map"
    /\ \E junk \in JunkReads(_index_probe, _keys), landed \in BOOLEAN :
        LET m == subscript(_index_probe, _keys, _values, key, junk, landed)
        IN /\ Apply(m)
           /\ \E junk2 \in JunkReads(m.index_probe, m.keys) :
               last' = [op |-> "subscript", key |-> key,
                        value |-> subscript_result(m, key, junk2),
                        ret |-> m.ret]
    /\ live' = live \cup {key}

InitFill == Init /\ last.value = 0

FillInsert == steps < MaxFill /\ Insert(Len(_keys) + 1, FillValue)
FillFind(key) == steps < MaxFill /\ Find(key)

FillSubscript(key) ==
    steps < MaxFill /\ key <= Len(_keys) + 1 /\ Subscript(key)

NextFill ==
    \/ FillInsert
    \/ \E key \in 1..MaxFill : FillFind(key)
    \/ \E key \in 1..(MaxFill + 1) : FillSubscript(key)

SpecFill == InitFill /\ [][NextFill]_vars

(* discrete_map.h under insert, erase_unordered and at.                     *)
EraseUnordered(key) ==
    /\ \E junk \in JunkReads(_index_probe, _keys), wrap \in BOOLEAN,
          junkb \in JunkKeys :
        LET m == erase_unordered(_index_probe, _keys, _values, key, junk,
                                 wrap, junkb)
        IN /\ Apply(m)
           /\ last' = [op |-> "erase_unordered", key |-> key,
                       value |-> DefaultValue, ret |-> m.ret]
    /\ live' = live \ {key}

At(key) ==
    /\ \E junk \in JunkReads(_index_probe, _keys), junkv \in JunkValues :
        LET r == at(_index_probe, _keys, _values, key, junk, junkv)
        IN /\ Apply(Snapshot)
           /\ last' = [op |-> "at", key |-> key, value |-> r.value,
                       ret |-> r.ok]
    /\ UNCHANGED live

InitAccess == Init /\ draft = "discrete_map"

AccessInsert(key, value) == steps < MaxAccess /\ Insert(key, value)
AccessEraseUnordered(key) == steps < MaxAccess /\ EraseUnordered(key)
AccessAt(key) == steps < MaxAccess /\ At(key)

NextAccess ==
    \/ \E key \in Keys, value \in Values : AccessInsert(key, value)
    \/ \E key \in Keys : AccessEraseUnordered(key)
    \/ \E key \in Keys : AccessAt(key)

SpecAccess == InitAccess /\ [][NextAccess]_vars

(* discrete_map.h, default constructed, under insert of the smallest key   *)
(* not inserted yet (or erased since) and erase_unordered of the first     *)
(* key: the runs long enough to occupy every slot of the minimum table.    *)
InitFull == Init /\ draft = "discrete_map" /\ last.value = 0

FullErased == {1}

NextKey ==
    CHOOSE k \in 1..(MaxFull + 1) :
        k \notin live /\ \A j \in 1..(k - 1) : j \in live

FullInsert == steps < MaxFull /\ Insert(NextKey, FillValue)
FullEraseUnordered(key) == steps < MaxFull /\ EraseUnordered(key)

NextFull ==
    \/ FullInsert
    \/ \E key \in FullErased : FullEraseUnordered(key)

SpecFull == InitFull /\ [][NextFull]_vars

(* part_003 over HashPolicy::probe.  A call in which probe does not return *)
(* ends the run.                                                           *)
InitProbe ==
    /\ draft = "part_003"
    /\ \E n \in 0..MaxHint :
        LET m == p3_construct(n)
        IN /\ _index_probe = m.index_probe
           /\ _keys = m.keys
           /\ _values = m.values
           /\ pre = [index_probe |-> m.index_probe, keys |-> m.keys,
                     values |-> m.values]
           /\ last = [op |-> "construct", key |-> DefaultKey, value |-> n,
                      ret |-> TRUE]
    /\ live = {}
    /\ steps = 0
    /\ _current = 0

Running == last.op \notin {"insert_no_return", "find_no_return"}

P3Insert(key, value) ==
    /\ \E junk \in JunkReads(_index_probe, _keys), retry \in BOOLEAN,
          landed \in BOOLEAN :
        LET m == p3_insert(_index_probe, _keys, _values, key, value, junk,
                           retry, landed)
        IN /\ Apply(m)
           /\ last' = [op |-> IF m.ret THEN "insert" ELSE "insert_no_return",
                       key |-> key, value |-> value, ret |-> m.ret]
           /\ live' = IF m.ret THEN live \cup {key} ELSE live

P3Find(key) ==
    /\ \E junk \in JunkReads(_index_probe, _keys), retry \in BOOLEAN :
        LET r == p3_find(_index_probe, _keys, key, junk, retry)
        IN /\ Apply(Map(r.indices, _keys, _values, r.found))
           /\ last' = [op |-> IF r.returns THEN "find" ELSE "find_no_return",
                       key |-> key, value |-> DefaultValue, ret |-> r.found]
    /\ UNCHANGED live

ProbeInsert(key, value) ==
    steps < MaxProbe /\ Running /\ P3Insert(key, value)
ProbeFind(key) == steps < MaxProbe /\ Running /\ P3Find(key)

NextProbe ==
    \/ \E key \in ProbeKeys : ProbeInsert(key, FillValue)
    \/ \E key \in ProbeKeys : ProbeFind(key)

SpecProbe == InitProbe /\ [][NextProbe]_vars

(* An iterator of linear_prober.h over a table of empty slots, moved by     *)
(* operator++ and operator+ from begin().                                  *)
InitWalk ==
    /\ draft = "linear_prober"
    /\ \E capacity \in {min_capacity, next_capacity(min_capacity)} :
        _index_probe = EmptyProbe(capacity)
    /\ _keys = << >>
    /\ _values = << >>
    /\ pre = Snapshot
    /\ last = [op |-> "begin", from |-> 0, n |-> 0]
    /\ live = {}
    /\ steps = 0
    /\ _current = 0

Moved(op, n, current) ==
    /\ _current' = current
    /\ last' = [op |-> op, from |-> _current, n |-> n]
    /\ steps' = steps + 1
    /\ UNCHANGED <<draft, _index_probe, _keys, _values, pre, live>>

Increment ==
    /\ steps < MaxWalk
    /\ Moved("increment", 1, lp_increment(_current, size(_index_probe)))

Advance(n) ==
    /\ steps < MaxWalk
    /\ Moved("advance", n, lp_advance(_current, n, size(_index_probe)))

NextWalk ==
    \/ Increment
    \/ \E n \in 1..(min_capacity - 1) : Advance(n)

SpecWalk == InitWalk /\ [][NextWalk]_vars

(* ------------------------------ claims -------------------------------- *)
Range(seq) == {seq[d] : d \in 1..Len(seq)}

IsPowerOfTwo(n) == n > 0 /\ BitAnd(n, n - 1) = 0

\* every outcome of the out-of-range reads a lookup in the current state makes
AllJunk == JunkReads(_index_probe, _keys)

LookupIn(m, key, junk, junkv) ==
    find(m.index_probe, m.keys, m.values, key, junk, junkv)

\* key is found in map m under some outcome of the out-of-range reads
MayFindIn(m, key) ==
    \E junk \in JunkReads(m.index_probe, m.keys) :
        LookupIn(m, key, junk, DefaultValue).found

\* key is found in map m, with value, under some outcome of the
\* out-of-range reads
MayFindWith(m, key, value) ==
    \E junk \in JunkReads(m.index_probe, m.keys), junkv \in JunkValues :
        LET r == LookupIn(m, key, junk, junkv)
        IN r.found /\ r.value = value

\* key is reported absent from map m under some outcome of the
\* out-of-range reads
MayMissIn(m, key) ==
    \E junk \in JunkReads(m.index_probe, m.keys) :
        ~LookupIn(m, key, junk, DefaultValue).found

\* key is found in map m whatever the out-of-range reads return
FoundIn(m, key) ==
    \A junk \in JunkReads(m.index_probe, m.keys) :
        LookupIn(m, key, junk, DefaultValue).found

\* key is found in map m, with value, whatever the out-of-range reads return
FoundWith(m, key, value) ==
    \A junk \in JunkReads(m.index_probe, m.keys), junkv \in JunkValues :
        LET r == LookupIn(m, key, junk, junkv)
        IN r.found /\ r.value = value

\* key is reported absent from map m whatever the out-of-range reads return
AbsentIn(m, key) ==
    \A junk \in JunkReads(m.index_probe, m.keys) :
        ~LookupIn(m, key, junk, DefaultValue).found

\* no empty slot lies on the walk from bucket b up to and including slot s
NoHoleUpTo(ip, b, s) ==
    LET order == CircularOrder(b, size(ip))
    IN \E p \in 1..size(ip) :
        /\ order[p] = s
        /\ \A q \in 1..p : ip[order[q]] # nullopt

\* C1: partial_map, after any inserts and erases: every key inserted and not
\* erased since is reported found by find (its slot is reached before any
\* empty slot); so after insert 1, 9, 17 and erase 9, key 17 is found.
\* A key counts as found when any outcome of an out-of-range read finds it.
C1_EraseNeverStrands ==
    draft = "partial_map" => \A k \in live : MayFindIn(Snapshot, k)

\* C2: part_006, round trip: find(k) yields the value stored for k for every
\* key inserted and not erased since, and reports every other key absent.
\* A lookup counts as right when any outcome of an out-of-range read makes
\* it right.
C2_RoundTrip ==
    draft = "part_006" =>
        \A k \in Keys :
            IF k \in live
            THEN \E d \in 1..Len(_keys) :
                    _keys[d] = k /\ MayFindWith(Snapshot, k, _values[d])
            ELSE MayMissIn(Snapshot, k)

\* C3: discrete_map.h and partial_map.h: insert(key, value) of a key that is
\* already stored leaves the value stored for it as it was.
C3_InsertKeepsValue ==
    (draft \in {"discrete_map", "partial_map"} /\ last.op = "insert") =>
        \A d \in 1..Len(pre.keys) :
            pre.keys[d] = last.key =>
                /\ d <= Len(_keys)
                /\ _keys[d] = last.key
                /\ _values[d] = pre.values[d]

\* C4: discrete_map.h: insert returns false when the key was already
\* stored, and returns true exactly when size() grew by one.
C4_InsertedFlag ==
    (draft = "discrete_map" /\ last.op = "insert") =>
        /\ last.key \in Range(pre.keys) => ~last.ret
        /\ last.ret <=> Len(_keys) = Len(pre.keys) + 1

\* C5: discrete_map.h: insert of a key that is not stored, growth included,
\* appends it and leaves its dense index in a slot of the table now in use
\* that the walk from the key's bucket reaches before any empty slot; the
\* key is then found with the value given and size() is one larger.
C5_InsertAfterGrowth ==
    (draft = "discrete_map" /\ last.op = "insert"
        /\ last.key \notin Range(pre.keys)) =>
        /\ Len(_keys) = Len(pre.keys) + 1
        /\ \E s \in DOMAIN _index_probe :
            /\ _index_probe[s] = Len(_keys) - 1
            /\ NoHoleUpTo(_index_probe,
                          _key2index(last.key, size(_index_probe)), s)
        /\ FoundWith(Snapshot, last.key, last.value)

\* C6: discrete_map.h and partial_map.h: after an insert returns,
\* size() / capacity < threshold.
C6_LoadFactorBound ==
    (draft \in {"discrete_map", "partial_map"} /\ last.op = "insert") =>
        ~FracGeq(<<Len(_keys), size(_index_probe)>>, threshold)

\* C7: discrete_map.h: the capacity of the slot table is a power of two and
\* at least min_capacity after construction (with or without a hint) and
\* after every insert and rehash(n).
C7_CapacityPowerOfTwo ==
    draft = "discrete_map" =>
        /\ IsPowerOfTwo(size(_index_probe))
        /\ size(_index_probe) >= min_capacity

\* C8: part_006 and partial_map.h: erase of a key that is not stored
\* returns false and changes neither the slot table nor the dense vectors.
C8_EraseAbsentIsNoOp ==
    (draft \in {"part_006", "partial_map"} /\ last.op = "erase"
        /\ last.key \notin Range(pre.keys)) =>
        /\ ~last.ret
        /\ Snapshot = pre

\* C9: part_006 and discrete_map.h: erase of a key that find reported
\* returns true, makes size() one smaller and the key absent, and every
\* other key that find reported is still found with the value it had.
C9_EraseRemovesOnlyKey ==
    (draft \in {"part_006", "discrete_map"} /\ last.op = "erase"
        /\ FoundIn(pre, last.key)) =>
        /\ last.ret
        /\ Len(_keys) = Len(pre.keys) - 1
        /\ AbsentIn(Snapshot, last.key)
        /\ \A d \in 1..Len(pre.keys) :
            (pre.keys[d] # last.key /\ FoundIn(pre, pre.keys[d])) =>
                FoundWith(Snapshot, pre.keys[d], pre.values[d])

\* C10: discrete_map.h and partial_map.h: every occupied slot holds a dense
\* index below len(keys), and after an erase every slot that referred to
\* another key refers to that same key (its index lowered by one when it
\* lay behind the erased position).
C10_EraseReindexes ==
    draft \in {"discrete_map", "partial_map"} =>
        /\ \A s \in DOMAIN _index_probe :
            _index_probe[s] # nullopt => _index_probe[s] < Len(_keys)
        /\ (last.op = "erase" /\ last.ret) =>
            \A s \in DOMAIN pre.index_probe :
                (/\ pre.index_probe[s] # nullopt
                 /\ pre.index_probe[s] < Len(pre.keys)
                 /\ pre.keys[pre.index_probe[s] + 1] # last.key) =>
                    /\ _index_probe[s] # nullopt
                    /\ _index_probe[s] < Len(_keys)
                    /\ _keys[_index_probe[s] + 1]
                         = pre.keys[pre.index_probe[s] + 1]

\* the sequence seq without the elements equal to key, order kept
Without(seq, key) == SelectSeq(seq, LAMBDA k : k # key)

\* C11: part_006: iterating the dense keys from position 0 yields the keys
\* in the order of their insertion minus the removed ones: an insert of a
\* new key puts it last, an insert of a stored key and a lookup leave the
\* sequence alone, an erase takes exactly the erased key out and keeps the
\* order of the others.
C11_OrderPreserved ==
    draft = "part_006" =>
        /\ last.op = "insert" =>
            _keys = IF last.key \in Range(pre.keys) THEN pre.keys
                    ELSE Append(pre.keys, last.key)
        /\ last.op = "erase" => _keys = Without(pre.keys, last.key)
        /\ last.op = "find" => _keys = pre.keys

\* C12: discrete_map.h: len(keys) = len(values) after construction and
\* after every insert, erase_unordered and at.
C12_SameLength ==
    draft = "discrete_map" => Len(_keys) = Len(_values)

\* C13: discrete_map.h, after construction and after every insert, erase,
\* lookup and rehash: for every dense position d exactly one slot holds d,
\* and the walk from the bucket of keys[d] reaches that slot without
\* passing an empty slot.
C13_SlotInvariant ==
    draft = "discrete_map" =>
        \A d \in 0..(Len(_keys) - 1) :
            /\ Cardinality({s \in DOMAIN _index_probe :
                                _index_probe[s] = d}) = 1
            /\ \E s \in DOMAIN _index_probe :
                /\ _index_probe[s] = d
                /\ NoHoleUpTo(_index_probe,
                              _key2index(_keys[d + 1], size(_index_probe)), s)

\* C14: discrete_map.h: rehash(n) with n above the capacity keeps the number
\* of occupied slots, and every key found before it is found after it with
\* the same value (entries whose new buckets coincide both keep a slot).
C14_RehashKeepsEntries ==
    (draft = "discrete_map" /\ last.op = "rehash"
        /\ last.value > size(pre.index_probe)) =>
        /\ Cardinality(DOMAIN _index_probe \ empties(_index_probe))
             = Cardinality(DOMAIN pre.index_probe \ empties(pre.index_probe))
        /\ \A d \in 1..Len(pre.keys) :
            FoundWith(pre, pre.keys[d], pre.values[d]) =>
                FoundWith(Snapshot, pre.keys[d], pre.values[d])

\* C15: discrete_map.h: rehash(n) with n not above the capacity changes
\* nothing: slot table, capacity, dense keys and dense values are as before.
C15_RehashSmallIsNoOp ==
    (draft = "discrete_map" /\ last.op = "rehash"
        /\ last.value <= size(pre.index_probe)) =>
        Snapshot = pre

\* a rehash(n) with n below the capacity has returned on a map that holds
\* an entry in a slot
C15_Witness ==
    /\ draft = "discrete_map"
    /\ last.op = "rehash"
    /\ last.value < size(pre.index_probe)
    /\ Len(pre.keys) > 0
    /\ empties(pre.index_probe) # DOMAIN pre.index_probe

\* C16: discrete_map.h, default constructed, distinct keys inserted one at a
\* time: the capacity is 8 until the 7th insert and 16 once the 7th insert
\* has returned (the first resize happens during the 7th insert).
C16_SeventhInsertResizes ==
    draft = "discrete_map" =>
        size(_index_probe) = IF Len(_keys) >= 7 THEN 16 ELSE min_capacity

C18_AtPresentOrError ==
    (draft = "discrete_map" /\ last.op = "at") =>
        /\ Snapshot = pre
        /\ last.ret <=> last.key \in Range(_keys)
        /\ last.ret =>
            \E d \in 1..Len(_keys) :
                /\ d <= Len(_values)
                /\ _keys[d] = last.key
                /\ last.value = _values[d]

\* C19: discrete_map.h and part_006: operator[](key) of a stored key
\* changes nothing and returns a reference to the value stored for key;
\* of a key that is not stored it appends key with a default value, size()
\* grows by one, and the reference returned is to the value of the entry
\* stored under key.
C19_SubscriptFindOrInsert ==
    (draft \in {"discrete_map", "part_006"} /\ last.op = "subscript") =>
        /\ last.value >= 0
        /\ last.value < Len(_keys)
        /\ _keys[last.value + 1] = last.key
        /\ IF last.key \in Range(pre.keys) THEN Snapshot = pre
           ELSE /\ _keys = Append(pre.keys, last.key)
                /\ _values = Append(pre.values, DefaultValue)

\* C20: discrete_map.h: erase_unordered(key) of a stored key reports
\* success, moves the last dense entry into the removed position, shortens
\* the keys and the values by one, leaves key absent, and leaves every
\* other key found with its own value.
C20_EraseUnorderedSwapsLast ==
    (/\ draft = "discrete_map"
     /\ last.op = "erase_unordered"
     /\ last.key \in Range(pre.keys)
     /\ Len(pre.values) = Len(pre.keys)) =>
        LET n == Len(pre.keys)
            d == CHOOSE e \in 1..n : pre.keys[e] = last.key
        IN /\ last.ret
           /\ Len(_keys) = n - 1
           /\ Len(_values) = n - 1
           /\ \A e \in 1..(n - 1) :
               /\ _keys[e] = IF e = d THEN pre.keys[n] ELSE pre.keys[e]
               /\ _values[e] = IF e = d THEN pre.values[n] ELSE pre.values[e]
           /\ AbsentIn(Snapshot, last.key)
           /\ \A e \in 1..(n - 1) : FoundWith(Snapshot, _keys[e], _values[e])

\* no slot of map m is empty and none holds key, whatever the out-of-range
\* reads return: a walk for key goes round the whole table
WalksWholeCycle(m, key) ==
    /\ empties(m.index_probe) = {}
    /\ \A junk \in JunkReads(m.index_probe, m.keys) :
        matches(m.index_probe, m.keys, key, junk) = {}

\* C21: discrete_map.h: an insert whose walk goes round the whole table
\* without meeting an empty slot or the key does not end as an ordinary
\* call that reports "not inserted" and leaves the map as it was.
C21_FullTableIsFatal ==
    (draft = "discrete_map" /\ last.op = "insert"
        /\ WalksWholeCycle(pre, last.key)) =>
        ~(~last.ret /\ Snapshot = pre)

\* C23: discrete_map.h: after construction and after every insert and
\* erase_unordered at least one slot of the table is empty.
C23_NeverFull ==
    draft = "discrete_map" => empties(_index_probe) # {}

\* size() and empty() of discrete_map.h: both read _keys.size()
dm_size(ks) == Len(ks)
dm_empty(ks) == Len(ks) = 0

\* C22: discrete_map.h: a map just constructed, with or without a capacity
\* hint, is empty: size() is 0, the dense keys and values are empty, every
\* slot is empty and no key is found; without a hint the capacity is
\* min_capacity.
C22_ConstructedEmpty ==
    (draft = "discrete_map" /\ last.op = "construct") =>
        /\ dm_size(_keys) = 0
        /\ dm_empty(_keys)
        /\ _keys = << >>
        /\ _values = << >>
        /\ empties(_index_probe) = DOMAIN _index_probe
        /\ \A k \in Keys \cup {DefaultKey} : AbsentIn(Snapshot, k)
        /\ last.value = 0 => size(_index_probe) = min_capacity

\* C24: part_003 over HashPolicy::probe: every lookup and every insertion
\* returns; none walks or recurses without end.
C24_EveryCallReturns ==
    draft = "part_003" => Running

\* C25: part_003: the bucket at which a lookup or an insertion starts its
\* walk is hash & (capacity - 1); it lies in [0, capacity) and for a
\* capacity that is a power of two it is hash mod capacity.
C25_BucketRoles ==
    (draft = "part_003" /\ last.op # "construct") =>
        LET capacity == size(pre.index_probe)
            raw_hash_val == hash_function(last.key)
            bucket == p3_key2index(last.key, capacity)
        IN /\ bucket = BitAnd(raw_hash_val, capacity - 1)
           /\ bucket >= 0
           /\ bucket < capacity
           /\ IsPowerOfTwo(capacity) => bucket = raw_hash_val % capacity

\* C26: the walk of discrete_map::_circular_traversal from bucket b visits
\* b, b+1, ..., capacity-1, 0, ..., b-1, every slot once; an iterator of
\* linear_prober.h stays on a slot in [0, capacity) and a move by n slots
\* (operator++ is a move by one) takes it from slot c to slot
\* (c + n) mod capacity.
C26_CyclicOrder ==
    draft = "linear_prober" =>
        LET capacity == size(_index_probe)
        IN /\ \A b \in 0..(capacity - 1), p \in 1..capacity :
                CircularOrder(b, capacity)[p] = (b + p - 1) % capacity
           /\ _current \in 0..(capacity - 1)
           /\ last.op \in {"increment", "advance"} =>
                _current = (last.from + last.n) % capacity

\* C27: discrete_map.h: the lookup that at(key) makes through find(key)
\* returns the dense position d of key (keys[d] = key) when key is stored
\* and end() when it is not, and it reports a key found only when no empty
\* slot lies on the walk from the key's bucket to the slot that holds it.
C27_FindReturnsDensePosition ==
    (draft = "discrete_map" /\ last.op = "at") =>
        \A junk \in JunkReads(pre.index_probe, pre.keys) :
            LET it == dm_find(pre.index_probe, pre.keys, last.key, junk)
                i == find_slot(pre.index_probe, pre.keys, last.key, junk)
            IN /\ IF last.key \in Range(pre.keys)
                  THEN it < Len(pre.keys) /\ pre.keys[it + 1] = last.key
                  ELSE it = Len(pre.keys)
               /\ i # -1 =>
                    NoHoleUpTo(pre.index_probe,
                               _key2index(last.key, size(pre.index_probe)), i)

\* size() and empty() of part_006: empty() tests _keys.size() > 0
p6_size(ks) == Len(ks)
p6_empty(ks) == Len(ks) > 0

\* C28: part_006 and discrete_map.h, in every state: empty() is true
\* exactly when size() is 0, and size() is the number of keys inserted and
\* not erased since.
C28_EmptyIffSizeZero ==
    /\ draft = "part_006" =>
        /\ p6_empty(_keys) <=> p6_size(_keys) = 0
        /\ p6_size(_keys) = Cardinality(live)
    /\ draft = "discrete_map" =>
        /\ dm_empty(_keys) <=> dm_size(_keys) = 0
        /\ dm_size(_keys) = Cardinality(live)

\* C29: discrete_map.h and partial_map.h, after any inserts and erases: no
\* key given to insert occurs at two dense positions.
C29_KeysUnique ==
    draft \in {"discrete_map", "partial_map"} =>
        \A d, e \in 1..Len(_keys) :
            (_keys[d] \in Keys /\ _keys[d] = _keys[e]) => d = e

\* seq is the beginning of longer
IsPrefix(seq, longer) ==
    /\ Len(seq) <= Len(longer)
    /\ SubSeq(longer, 1, Len(seq)) = seq

\* C30: discrete_map.h and partial_map.h: rehash(n) leaves the dense keys
\* and values as they were, and an insert of a key that is not stored, its
\* growth of the table included, leaves every entry that existed at its
\* dense position with its key and value: it only appends.
C30_DenseStorageStable ==
    /\ (draft = "discrete_map" /\ last.op = "rehash") =>
        /\ _keys = pre.keys
        /\ _values = pre.values
    /\ (draft \in {"discrete_map", "partial_map"} /\ last.op = "insert"
            /\ last.key \notin Range(pre.keys)) =>
        /\ IsPrefix(pre.keys, _keys)
        /\ IsPrefix(pre.values, _values)

\* an insert of a new key has grown the table of a map that held entries
C30_Witness ==
    /\ draft = "discrete_map"
    /\ last.op = "insert"
    /\ last.key \notin Range(pre.keys)
    /\ size(_index_probe) > size(pre.index_probe)
    /\ Len(pre.keys) > 0
    /\ Len(_keys) = Len(pre.keys) + 1

====
